---- MODULE Spec2Model ----
(***************************************************************************)
(* A model of the AWS resource management CLI (src/aws_manager.py and      *)
(* src/resources/{ec2,s3,route53}.py).  The provider's resources are the   *)
(* state; every handler of the tool is one action that reads the provider, *)
(* takes the user's answers as inputs and issues provider calls.           *)
(*                                                                         *)
(* Three history variables record what an operation did, so that the       *)
(* properties can speak about it:                                          *)
(*   op     the handler that ran last and what it observed                 *)
(*   shown  the resources the handler printed or offered for selection     *)
(*   calls  the mutating provider calls the handler issued, in order       *)
(***************************************************************************)
EXTENDS Integers, Sequences, FiniteSets, TLC

VARIABLES instances, buckets, zones, typed, pc, local, op, shown, calls

vars == <<instances, buckets, zones, typed, pc, local, op, shown, calls>>

\* What each manager leaves alone
notEc2 == <<buckets, zones, typed, pc, local>>

notS3 == <<instances, zones, typed>>

notDns == <<instances, buckets, typed, pc, local>>

(***************************************************************************)
(* Bounds of the model.                                                    *)
(***************************************************************************)
MaxInst == 3

\* How many answers a prompt rejects in one operation
MaxTries == 2

\* How many files one upload operation is given
MaxUploads == 2

\* The text typed at the bucket-name prompt: up to MaxTokens pieces, after
\* PadLen letters or none (so that lengths around 63 occur)
MaxTokens == 3

PadLen == 60

(***************************************************************************)
(* Text.  A string the code inspects is a sequence of one-character        *)
(* strings.                                                                *)
(***************************************************************************)
LowerChar(c) == CASE c = "Q" -> "q" [] c = "A" -> "a" [] c = "W" -> "w" [] OTHER -> c

\* str.lower()
Lower(s) == [k \in 1..Len(s) |-> LowerChar(s[k])]

\* The quit sentinel of the prompts
Quit == <<"q">>

(***************************************************************************)
(* The provider's resources that the Storage Manager works on              *)
(***************************************************************************)
Logs == <<"l", "o", "g", "s">>

Docs == <<"d", "o", "c", "s">>

BucketNames == {Logs, Docs}

\* Object keys, and the local files the user may name: path components
Keys == {"a.txt", "b.txt"}

LocalFiles == {<<"a.txt">>, <<"tmp", "b.txt">>}

\* tag: "cli" is CreatedBy = OWNER_NAME, "other" a tag set without it, and
\* "untagged" a bucket whose tag lookup raises ClientError (NoSuchTagSet).
\* access: "private" is a new bucket's public access block, "unblocked" that
\* block switched off, "public" a public-read policy on top of that.
NoBucket == [exists |-> FALSE, tag |-> "untagged", objects |-> {}, access |-> "private"]

NoBuckets == [b \in BucketNames |-> NoBucket]

(***************************************************************************)
(* The provider's resources that the DNS Manager works on                  *)
(***************************************************************************)
ZoneIds == {"Z1", "Z2", "Z3"}

\* list_hosted_zones: the zones in the provider's order
ZoneOrder == <<"Z1", "Z2", "Z3">>

\* The domain of each zone, as the provider stores it (lower case, a trailing
\* dot); the provider lets several hosted zones have one domain
ZoneName(z) == IF z \in {"Z1", "Z3"} THEN <<"a", ".", "i", "o", ".">>
                                      ELSE <<"b", ".", "i", "o", ".">>

NoZone == [exists |-> FALSE, tag |-> "untagged", records |-> {}]

NoZones == [z \in ZoneIds |-> NoZone]

\* A record set: name, type, TTL and the list of its values
RecordSet(name, type, ttl, values) ==
    [name |-> name, type |-> type, ttl |-> ttl, values |-> values]

\* The record sets every hosted zone is created with
DefaultRecords(z) ==
    {RecordSet(ZoneName(z), "NS", 172800, <<<<"n", "s">>>>),
     RecordSet(ZoneName(z), "SOA", 900, <<<<"n", "s">>>>)}

\* Record sets a zone may hold besides, before the tool runs
OtherRecords(z) ==
    {RecordSet(ZoneName(z), "TXT", 300, <<<<"\"", "1", "\"">>>>),
     RecordSet(<<"w", ".">> \o ZoneName(z), "A", 300, <<<<"1">>>>)}

(***************************************************************************)
(* The Instance Manager: src/resources/ec2.py                              *)
(***************************************************************************)
InstIds == 1..MaxInst

InstNames == {"web", "db"}

\* The Name tag instance i carries: the first instance of the account is the
\* only "db", every later one is a "web" (so names are shared from the second
\* "web" on).  The user names a new instance accordingly.
NameTag(i) == IF i = 1 THEN "db" ELSE "web"

\* The instance states of the provider; "none" is an id not yet allocated.
LiveStates == {"pending", "running", "stopping", "stopped", "shutting-down", "terminated"}

NoInst == [state |-> "none", name |-> "", cli |-> FALSE]

Allocated == {i \in InstIds : instances[i].state # "none"}

InState(S) == {i \in InstIds : instances[i].state \in S}

Running == InState({"running"})

\* What an operation resolved its target from: the candidates found, the id
\* entered when there were several (0: not asked), the instance object it went
\* on with (0: none) and the state read from that object
NoResolved == [candidates |-> {}, pick |-> 0, instance |-> 0, state |-> "none"]

NoOp == [name |-> "none", precheck |-> "none", observed |-> 0, note |-> "none",
         confirmed |-> <<>>, resolved |-> NoResolved]

\* An answer at a confirmation prompt, and how many calls the operation had
\* issued when it was given
Confirm(at, answer) == [at |-> at, answer |-> answer]

\* The test after a confirmation prompt: anything but 'y' ends the operation
DeclinedNever(confirm) == FALSE

Declined(confirm) == confirm # "y"

\* The local variables a handler keeps between two prompts
NoLocal == [bucket_name |-> <<>>, files |-> <<>>]

Call(api, target, arg) == [api |-> api, target |-> target, arg |-> arg]

\* ec2.instances.filter(Filters=[tag:Name = n]) with an optional state filter
ByName(n, S) == {i \in InState(S) : instances[i].name = n}

\* ec2.instances.filter(Filters=[instance-id = i]): any state, terminated too
ById(i) == {j \in Allocated : j = i}

\* What the user types at "Enter the Instance Name or Instance ID to manage"
Identifiers ==
    [kind : {"name"}, name : InstNames, id : {0}]
        \cup [kind : {"id"}, name : {""}, id : InstIds]

\* list_cli_instances: tag:CreatedBy = OWNER_NAME, not terminated or shutting-down
CliInstances ==
    {i \in InState(LiveStates \ {"terminated", "shutting-down"}) : instances[i].cli}

\* check_running_instances: TRUE when a create or start may proceed
CheckRunningInstancesOffByOne(n) == ~(n > 2)

CheckRunningInstances(n) == ~(n >= 2)

\* The provider's answer to a call: the state the instance moves to.
SetState(i, s) == [instances EXCEPT ![i].state = s]

GetInstanceByNameFirst(cands, pick) ==
    IF cands = {} THEN 0 ELSE CHOOSE i \in cands : \A j \in cands : i <= j

\* get_instance_by_name(ec2, name) with no state filter, as delete_instance calls
\* it: the candidates, and the instance resolved from them (0: none).
GetInstanceByName(cands, pick) ==
    IF cands = {} THEN 0
    ELSE IF Cardinality(cands) > 1
         THEN (IF pick \in cands THEN pick ELSE 0)
         ELSE CHOOSE i \in cands : TRUE

\* manage_ec2_instance's lookup: by name tag in the listed state, else by id
FilteredInstances(ident, filter_state) ==
    LET byName == IF ident.kind = "name" THEN ByName(ident.name, {filter_state}) ELSE {}
    IN  IF byName # {} THEN byName
        ELSE IF ident.kind = "id" THEN ById(ident.id) ELSE {}

ValidState(action) == IF action = "start" THEN "stopped" ELSE "running"

WrongStateNever(instance_state, action) == FALSE

\* if instance_state != valid_states[action]: report and return
WrongState(instance_state, action) == instance_state # ValidState(action)

\* The target an operation resolved, with the state its object carries
Resolved(cands, pick, instance) ==
    [candidates |-> cands, pick |-> pick, instance |-> instance,
     state |-> IF instance = 0 THEN "none" ELSE instances[instance].state]

ActionState(action) == IF action = "start" THEN "pending" ELSE "stopping"

\* The answers that matter at a prompt: the id prompt is reached only with
\* several candidates, and the provider answers only when it is called.
Picks(cands) == IF Cardinality(cands) > 1 THEN InstIds ELSE {0}

Answers(called) == IF called THEN BOOLEAN ELSE {TRUE}

\* manage_ec2_instance: start or stop one instance.  The listing of the
\* instances is outside any try: when that provider call raises, the exception
\* leaves the handler and the process ends with it.
ManageEc2Instance ==
    \E action \in {"start", "stop"}, listOk \in BOOLEAN :
    IF ~listOk
    THEN /\ op' = [NoOp EXCEPT !.name = action, !.note = "crashed"]
         /\ shown' = {} /\ calls' = <<>>
         /\ UNCHANGED <<instances, notEc2>>
    ELSE
    \E ident \in Identifiers :
      LET filter_state == ValidState(action)
          listed == InState({filter_state})
          filtered == FilteredInstances(ident, filter_state)
          many == Cardinality(filtered) > 1
          seen == listed \cup (IF many THEN filtered ELSE {})
          n == Cardinality(Running)
          base == [NoOp EXCEPT !.name = action]
      IN
      \E pick \in Picks(filtered) :
      LET instance == GetInstanceByName(filtered, pick)
          found == Resolved(filtered, pick, instance)
          instance_state == found.state
          wrong == instance # 0 /\ WrongState(instance_state, action)
          tried == [base EXCEPT !.resolved = found]
          refused == action = "start" /\ ~CheckRunningInstances(n)
          called == listed # {} /\ instance # 0 /\ ~wrong /\ ~refused
      IN
      \E ok \in Answers(called) :
      IF listed = {}
      THEN /\ op' = [base EXCEPT !.note = "no_instances"]
           /\ shown' = {} /\ calls' = <<>>
           /\ UNCHANGED <<instances, notEc2>>
      ELSE IF filtered = {}
      THEN /\ op' = [base EXCEPT !.note = "not_found"]
           /\ shown' = listed /\ calls' = <<>>
           /\ UNCHANGED <<instances, notEc2>>
      ELSE IF instance = 0
      THEN /\ op' = [tried EXCEPT !.note = "cancelled"]
           /\ shown' = seen /\ calls' = <<>>
           /\ UNCHANGED <<instances, notEc2>>
      ELSE IF wrong
      THEN /\ op' = [tried EXCEPT !.note = "wrong_state"]
           /\ shown' = seen /\ calls' = <<>>
           /\ UNCHANGED <<instances, notEc2>>
      ELSE IF refused
      THEN /\ op' = [tried EXCEPT !.note = "refused", !.precheck = "refuse",
                                  !.observed = n]
           /\ shown' = seen \cup CliInstances /\ calls' = <<>>
           /\ UNCHANGED <<instances, notEc2>>
      ELSE /\ op' = [tried EXCEPT !.note = IF ok THEN "done" ELSE "failed",
                                  !.precheck = IF action = "start" THEN "pass" ELSE "none",
                                  !.observed = IF action = "start" THEN n ELSE 0]
           /\ shown' = seen
           /\ calls' = <<Call(action, instance, instance_state)>>
           /\ instances' = IF ok THEN SetState(instance, ActionState(action))
                                 ELSE instances
           /\ UNCHANGED notEc2

\* delete_instance: terminate one instance found by its name tag.
DeleteInstance ==
    \E name \in InstNames :
      LET listed == InState({"running", "stopped"})
          cands == ByName(name, LiveStates \ {"terminated", "shutting-down"})
          many == Cardinality(cands) > 1
          seen == listed \cup (IF many THEN cands ELSE {})
          base == [NoOp EXCEPT !.name = "delete"]
      IN
      \E pick \in Picks(cands) :
      LET instance == GetInstanceByName(cands, pick)
          asked == listed # {} /\ instance # 0
          tried == [base EXCEPT !.resolved = Resolved(cands, pick, instance)]
      IN
      \E confirm \in (IF asked THEN {"y", "n"} ELSE {"n"}) :
      \E ok \in Answers(asked /\ confirm = "y") :
      IF listed = {}
      THEN /\ op' = [base EXCEPT !.note = "no_instances"]
           /\ shown' = {} /\ calls' = <<>>
           /\ UNCHANGED <<instances, notEc2>>
      ELSE IF cands = {}
      THEN /\ op' = [base EXCEPT !.note = "not_found"]
           /\ shown' = listed /\ calls' = <<>>
           /\ UNCHANGED <<instances, notEc2>>
      ELSE IF instance = 0
      THEN /\ op' = [tried EXCEPT !.note = "cancelled"]
           /\ shown' = seen /\ calls' = <<>>
           /\ UNCHANGED <<instances, notEc2>>
      ELSE IF Declined(confirm)
      THEN /\ op' = [tried EXCEPT !.note = "declined",
                                  !.confirmed = <<Confirm(0, confirm)>>]
           /\ shown' = seen /\ calls' = <<>>
           /\ UNCHANGED <<instances, notEc2>>
      ELSE /\ op' = [tried EXCEPT !.note = IF ok THEN "done" ELSE "failed",
                                  !.confirmed = <<Confirm(0, confirm)>>]
           /\ shown' = seen
           /\ calls' = <<Call("terminate", instance, "")>>
           /\ instances' = IF ok THEN SetState(instance, "shutting-down")
                                 ELSE instances
           /\ UNCHANGED notEc2

\* The id the provider gives the next instance (0: the model's ids are used up).
FreshId == IF Allocated = InstIds THEN 0
           ELSE CHOOSE i \in InstIds \ Allocated :
                    \A j \in InstIds \ Allocated : i <= j

\* create_ec2_instance: the pre-check, the AMI and type prompts ('q' exits the
\* process; any other invalid answer prompts again), then create_instances with
\* the tags Name, Owner and CreatedBy.
CreateEc2Instance ==
    \E name \in InstNames, image \in {"a", "u", "q"}, type \in {"t3", "t4", "q"} :
      LET n == Cardinality(Running)
          base == [NoOp EXCEPT !.name = "create", !.observed = n]
      IN
      \E ok \in Answers(CheckRunningInstances(n) /\ image # "q" /\ type # "q") :
      IF ~CheckRunningInstances(n)
      THEN /\ op' = [base EXCEPT !.note = "refused", !.precheck = "refuse"]
           /\ shown' = CliInstances /\ calls' = <<>>
           /\ UNCHANGED <<instances, notEc2>>
      ELSE IF image = "q" \/ type = "q"
      THEN /\ op' = [base EXCEPT !.note = "exit", !.precheck = "pass"]
           /\ shown' = {} /\ calls' = <<>>
           /\ UNCHANGED <<instances, notEc2>>
      ELSE /\ FreshId # 0
           /\ name = NameTag(FreshId)
           /\ op' = [base EXCEPT !.note = IF ok THEN "done" ELSE "failed",
                                  !.precheck = "pass"]
           /\ shown' = {}
           /\ calls' = <<Call("create_instances", IF ok THEN FreshId ELSE 0,
                              <<image, type>>)>>
           /\ instances' =
                IF ok THEN [instances EXCEPT ![FreshId] =
                                [state |-> "pending", name |-> name, cli |-> TRUE]]
                      ELSE instances
           /\ UNCHANGED notEc2

\* list_cli_instances as a menu entry
ListCliInstances ==
    /\ op' = [NoOp EXCEPT !.name = "list"]
    /\ shown' = CliInstances
    /\ calls' = <<>>
    /\ UNCHANGED <<instances, notEc2>>

\* The provider completes a transition it was asked for.
Settled(s) == CASE s = "pending" -> "running"
                [] s = "stopping" -> "stopped"
                [] s = "shutting-down" -> "terminated"
                [] OTHER -> s

ProviderSettles ==
    \E i \in InstIds :
      /\ instances[i].state \in {"pending", "stopping", "shutting-down"}
      /\ instances' = SetState(i, Settled(instances[i].state))
      /\ UNCHANGED <<notEc2, op, shown, calls>>

\* The account before the tool runs: instances running or stopped, at most two
\* of them running; the first may be one the tool did not create.
InitEc2 ==
    /\ instances \in [InstIds -> {NoInst} \cup
                         [state : {"running", "stopped"}, name : InstNames, cli : BOOLEAN]]
    /\ \A i \in Allocated : /\ instances[i].name = NameTag(i)
                            /\ (i # 1 => instances[i].cli)
    /\ \A i \in InstIds : instances[i].state = "none" =>
                            \A j \in InstIds : j > i => instances[j].state = "none"
    /\ Cardinality(Running) <= 2
    /\ buckets = NoBuckets /\ zones = NoZones /\ typed = <<>>
    /\ pc = "menu" /\ local = NoLocal
    /\ op = NoOp /\ shown = {} /\ calls = <<>>

NextEc2 ==
    \/ ManageEc2Instance
    \/ DeleteInstance
    \/ CreateEc2Instance
    \/ ListCliInstances
    \/ ProviderSettles

SpecEc2 == InitEc2 /\ [][NextEc2]_vars

(***************************************************************************)
(* The Storage Manager: src/resources/s3.py                                *)
(***************************************************************************)
\* s3.list_buckets()
Existing == {b \in BucketNames : buckets[b].exists}

\* is_cli_created_bucket: the tag set holds CreatedBy = OWNER_NAME; a tag
\* lookup that raises ClientError answers False.
IsCliCreatedBucket(b) == buckets[b].tag = "cli"

\* cli_buckets of upload_file_to_s3 and delete_s3_bucket
CliBuckets == {b \in Existing : IsCliCreatedBucket(b)}

\* str.strip(): leading and trailing whitespace removed
Whitespace == {" ", "\n"}

RECURSIVE LStrip(_)
LStrip(s) == IF s # <<>> /\ Head(s) \in Whitespace THEN LStrip(Tail(s)) ELSE s

RECURSIVE RStrip(_)
RStrip(s) == IF s # <<>> /\ s[Len(s)] \in Whitespace
             THEN RStrip(SubSeq(s, 1, Len(s) - 1)) ELSE s

Strip(s) == RStrip(LStrip(s))

\* sub in s, and s.startswith(sub)
Contains(sub, s) ==
    \E k \in 1..(Len(s) - Len(sub) + 1) : SubSeq(s, k, k + Len(sub) - 1) = sub

StartsWith(s, sub) == Len(s) >= Len(sub) /\ SubSeq(s, 1, Len(sub)) = sub

\* The character classes of the pattern: [a-z0-9] and [a-z0-9.-]
LowerAlnum == {"a", "b", "c", "d", "e", "g", "h", "l", "n", "o", "q", "r", "s",
               "t", "w", "x", "0", "3"}

NameChars == LowerAlnum \cup {".", "-"}

\* The pattern ^[a-z0-9][a-z0-9.-]*[a-z0-9] matched up to the end of s
MatchesToEnd(s) ==
    /\ Len(s) >= 2
    /\ s[1] \in LowerAlnum
    /\ \A k \in 2..(Len(s) - 1) : s[k] \in NameChars
    /\ s[Len(s)] \in LowerAlnum

\* re.match(r'^[a-z0-9][a-z0-9.-]*[a-z0-9]$', s): "$" matches at the end of the
\* string and also just before a newline that ends it.
ReMatch(s) ==
    \/ MatchesToEnd(s)
    \/ s # <<>> /\ s[Len(s)] = "\n" /\ MatchesToEnd(SubSeq(s, 1, Len(s) - 1))

MinNameLen == 3

MaxNameLen == 63

\* is_valid_bucket_name without the test for 's3'
IsValidBucketNameAwsOnly(bucket_name) ==
    IF ~(MinNameLen <= Len(bucket_name) /\ Len(bucket_name) <= MaxNameLen) THEN FALSE
    ELSE IF ~ReMatch(bucket_name) THEN FALSE
    ELSE IF Contains(<<".", ".">>, bucket_name) \/ Contains(<<".", "-">>, bucket_name)
            \/ Contains(<<"-", ".">>, bucket_name) THEN FALSE
    ELSE IF StartsWith(bucket_name, <<"x", "n", "-", "-">>)
            \/ StartsWith(bucket_name, <<"s", "t", "h", "r", "e", "e", "-">>) THEN FALSE
    ELSE IF Contains(<<"a", "w", "s">>, bucket_name) THEN FALSE
    ELSE TRUE

\* is_valid_bucket_name
IsValidBucketName(bucket_name) ==
    IF ~(MinNameLen <= Len(bucket_name) /\ Len(bucket_name) <= MaxNameLen) THEN FALSE
    ELSE IF ~ReMatch(bucket_name) THEN FALSE
    ELSE IF Contains(<<".", ".">>, bucket_name) \/ Contains(<<".", "-">>, bucket_name)
            \/ Contains(<<"-", ".">>, bucket_name) THEN FALSE
    ELSE IF StartsWith(bucket_name, <<"x", "n", "-", "-">>)
            \/ StartsWith(bucket_name, <<"s", "t", "h", "r", "e", "e", "-">>) THEN FALSE
    ELSE IF Contains(<<"a", "w", "s">>, bucket_name) \/ Contains(<<"s", "3">>, bucket_name)
         THEN FALSE
    ELSE TRUE

\* get_available_bucket_name: one answer at the name prompt, up to the
\* existence probe.  The answer is stripped; 'q' cancels; a name that is not
\* valid is asked again.
ValidateTypedName ==
    /\ pc = "name_typed"
    /\ LET bucket_name == Strip(typed)
       IN  /\ local' = [local EXCEPT !.bucket_name = bucket_name]
           /\ op' = [NoOp EXCEPT !.name = "validate",
                                 !.note = IF Lower(bucket_name) = Quit THEN "cancelled"
                                          ELSE IF ~IsValidBucketName(bucket_name)
                                          THEN "invalid" ELSE "valid"]
    /\ pc' = "menu"
    /\ UNCHANGED <<buckets, shown, calls, notS3>>

\* The pieces a typed name is put together from, chosen so that every rule of
\* the validator has names on both sides of it.
Tokens == {<<"a">>, <<"3">>, <<"s">>, <<".">>, <<"-">>, <<"A">>, <<"q">>, <<" ">>, <<"\n">>,
           <<"x", "n", "-">>, <<"a", "w">>, <<"s", "t", "h", "r", "e", "e">>}

RECURSIVE Flatten(_)
Flatten(toks) == IF toks = <<>> THEN <<>> ELSE Head(toks) \o Flatten(Tail(toks))

Pad(n) == [k \in 1..n |-> "b"]

TypedNames ==
    {Pad(p) \o Flatten(toks) :
        p \in {0, PadLen}, toks \in UNION {[1..k -> Tokens] : k \in 0..MaxTokens}}

InitName ==
    /\ typed \in TypedNames
    /\ pc = "name_typed" /\ local = NoLocal
    /\ instances = [i \in InstIds |-> NoInst] /\ buckets = NoBuckets /\ zones = NoZones
    /\ op = NoOp /\ shown = {} /\ calls = <<>>

NextName == ValidateTypedName

SpecName == InitName /\ [][NextName]_vars

\* What the user may type at a bucket-name prompt
NameInputs == BucketNames \cup {Quit, <<"Q">>, <<"n", "o", "n", "e">>}

AtMenu == pc = "menu"

\* An operation starts: the history is that of this operation from here on.
Begin(name) == [NoOp EXCEPT !.name = name, !.note = "prompt"]

\* upload_file_to_s3, up to its bucket prompt
UploadFileToS3 ==
    /\ AtMenu
    /\ calls' = <<>>
    /\ IF CliBuckets = {}
       THEN /\ op' = [NoOp EXCEPT !.name = "upload", !.note = "no_buckets"]
            /\ shown' = {}
            /\ UNCHANGED <<pc, local>>
       ELSE /\ op' = Begin("upload")
            /\ shown' = CliBuckets
            /\ pc' = "upload_bucket"
            /\ UNCHANGED local
    /\ UNCHANGED <<buckets, notS3>>

\* upload_file_to_s3: "if bucket_name in cli_buckets: break"
UploadAcceptsAnyBucket(name, cli_buckets) == name \in Existing

UploadAccepts(name, cli_buckets) == name \in cli_buckets

\* upload_file_to_s3: one answer at the bucket prompt; cli_buckets is the list
\* computed when the operation started.
UploadBucketAnswer ==
    /\ pc = "upload_bucket"
    /\ \E name \in NameInputs :
         IF Lower(name) = Quit
         THEN /\ op' = [op EXCEPT !.note = "cancelled"]
              /\ pc' = "menu"
              /\ UNCHANGED local
         ELSE IF UploadAccepts(name, shown)
         THEN /\ pc' = "upload_file"
              /\ local' = [local EXCEPT !.bucket_name = name]
              /\ UNCHANGED op
         ELSE /\ op.observed < MaxTries
              /\ op' = [op EXCEPT !.observed = @ + 1]
              /\ UNCHANGED <<pc, local>>
    /\ UNCHANGED <<buckets, shown, calls, notS3>>

\* os.path.isfile and os.path.basename
Missing == <<"tmp", "gone.txt">>

Paths == LocalFiles \cup {Missing}

IsFile(path) == path \in LocalFiles

Basename(path) == path[Len(path)]

\* The keys the calls cs removed or added: those the provider accepted
Accepted(cs) == {cs[k].arg.key : k \in {j \in 1..Len(cs) : cs[j].arg.ok}}

\* upload_file_to_s3: one answer at the file prompt.  'q' ends the operation;
\* a path that is no file is asked again; a file is uploaded under its base
\* name (the provider accepts or raises), and the user uploads another or stops.
UploadFileAnswer ==
    /\ pc = "upload_file"
    /\ \/ /\ op' = [op EXCEPT !.note = "quit"]
          /\ pc' = "menu" /\ local' = NoLocal
          /\ UNCHANGED <<buckets, calls>>
       \/ \E path \in Paths :
            /\ ~IsFile(path)
            /\ UNCHANGED <<buckets, op, pc, calls, local>>
       \/ \E path \in Paths, ok \in BOOLEAN, another \in {"y", "n"} :
            LET c == Call("upload_file", local.bucket_name,
                          [key |-> Basename(path), ok |-> ok])
            IN
            /\ IsFile(path)
            /\ Len(calls) < MaxUploads
            /\ calls' = Append(calls, c)
            /\ buckets' = [buckets EXCEPT ![local.bucket_name].objects =
                                              @ \cup Accepted(<<c>>)]
            /\ IF another = "n"
               THEN op' = [op EXCEPT !.note = "done"] /\ pc' = "menu" /\ local' = NoLocal
               ELSE UNCHANGED <<op, pc, local>>
    /\ UNCHANGED <<shown, notS3>>

\* delete_s3_bucket, up to its bucket prompt
DeleteS3Bucket ==
    /\ AtMenu
    /\ calls' = <<>>
    /\ IF CliBuckets = {}
       THEN /\ op' = [NoOp EXCEPT !.name = "delete_bucket", !.note = "no_buckets"]
            /\ shown' = {}
            /\ UNCHANGED <<pc, local>>
       ELSE /\ op' = Begin("delete_bucket")
            /\ shown' = CliBuckets
            /\ pc' = "delete_bucket"
            /\ UNCHANGED local
    /\ UNCHANGED <<buckets, notS3>>

\* delete_s3_bucket: matching_buckets, the buckets of list_buckets() with that name
MatchingBuckets(name) == {b \in Existing : b = name}

\* list_objects_v2: the keys in the provider's order
KeyOrder == <<"a.txt", "b.txt">>

Files(b) == SelectSeq(KeyOrder, LAMBDA key : key \in buckets[b].objects)

\* delete_s3_bucket: one answer at the bucket prompt, and on a bucket that
\* exists the listing of check_and_delete_files_in_bucket: a failed listing or
\* an empty bucket goes on to the confirmation, files go to the file prompt.
DeleteBucketAnswer ==
    /\ pc = "delete_bucket"
    /\ \E name \in NameInputs, listOk \in BOOLEAN :
         IF Lower(name) = Quit
         THEN /\ op' = [op EXCEPT !.note = "cancelled"]
              /\ pc' = "menu"
              /\ UNCHANGED local
         ELSE IF MatchingBuckets(name) # {}
         THEN /\ local' = [bucket_name |-> name,
                           files |-> IF listOk THEN Files(name) ELSE <<>>]
              /\ pc' = IF local'.files = <<>> THEN "delete_confirm" ELSE "delete_file"
              /\ UNCHANGED op
         ELSE /\ op.observed < MaxTries
              /\ op' = [op EXCEPT !.observed = @ + 1]
              /\ UNCHANGED <<pc, local>>
    /\ UNCHANGED <<buckets, shown, calls, notS3>>

\* check_and_delete_files_in_bucket: one answer at the file-number prompt.
\* 'q' (0) returns; a number of the listing deletes that one file and returns;
\* any other answer is asked again.
CheckAndDeleteFilesInBucket ==
    /\ pc = "delete_file"
    /\ \/ \E choice \in 0..(Len(local.files) + 1), ok \in BOOLEAN :
            IF choice = 0
            THEN /\ pc' = "delete_confirm"
                 /\ UNCHANGED <<buckets, calls>>
            ELSE IF choice <= Len(local.files)
            THEN LET c == Call("delete_object", local.bucket_name,
                               [key |-> local.files[choice], ok |-> ok])
                 IN  /\ calls' = Append(calls, c)
                     /\ buckets' = [buckets EXCEPT ![local.bucket_name].objects =
                                                       @ \ Accepted(<<c>>)]
                     /\ pc' = "delete_confirm"
            ELSE UNCHANGED <<buckets, calls, pc>>
    /\ UNCHANGED <<op, shown, local, notS3>>

\* delete_s3_bucket: the confirmation, and delete_bucket, which the provider
\* refuses for a bucket that holds objects.
DeleteBucketConfirm ==
    /\ pc = "delete_confirm"
    /\ \E confirm \in {"y", "n"}, ok \in BOOLEAN :
         LET b == local.bucket_name
             accepted == ok /\ buckets[b].objects = {}
         IN
         IF Declined(confirm)
         THEN /\ op' = [op EXCEPT !.note = "declined",
                                  !.confirmed = <<Confirm(Len(calls), confirm)>>]
              /\ UNCHANGED <<buckets, calls>>
         ELSE /\ op' = [op EXCEPT !.note = IF accepted THEN "done" ELSE "failed",
                                  !.confirmed = <<Confirm(Len(calls), confirm)>>]
              /\ calls' = Append(calls, Call("delete_bucket", b,
                                  [found |-> Len(local.files), left |-> buckets[b].objects]))
              /\ buckets' = IF accepted THEN [buckets EXCEPT ![b] = NoBucket]
                                         ELSE buckets
    /\ pc' = "menu" /\ local' = NoLocal
    /\ UNCHANGED <<shown, notS3>>

\* list_s3_buckets: every bucket of list_buckets() is printed
ListS3Buckets ==
    /\ AtMenu
    /\ \E ok \in BOOLEAN :
         /\ op' = [NoOp EXCEPT !.name = "list_buckets",
                               !.note = IF ok THEN "done" ELSE "failed"]
         /\ shown' = IF ok THEN Existing ELSE {}
    /\ calls' = <<>>
    /\ UNCHANGED <<buckets, pc, local, notS3>>

\* The account before the tool runs: any buckets, the tool's or others'.
InitS3 ==
    /\ buckets \in [BucketNames -> {NoBucket} \cup
                        [exists : {TRUE}, tag : {"cli", "other", "untagged"},
                         objects : SUBSET Keys, access : {"private"}]]
    /\ instances = [i \in InstIds |-> NoInst] /\ zones = NoZones /\ typed = <<>>
    /\ pc = "menu" /\ local = NoLocal
    /\ op = NoOp /\ shown = {} /\ calls = <<>>

NextS3 ==
    \/ UploadFileToS3
    \/ UploadBucketAnswer
    \/ UploadFileAnswer
    \/ DeleteS3Bucket
    \/ DeleteBucketAnswer
    \/ CheckAndDeleteFilesInBucket
    \/ DeleteBucketConfirm
    \/ ListS3Buckets

SpecS3 == InitS3 /\ [][NextS3]_vars

(***************************************************************************)
(* The DNS Manager: src/resources/route53.py                               *)
(***************************************************************************)
\* is_cli_created_zone: the zone's tags hold CreatedBy = OWNER_NAME; a tag
\* lookup that raises ClientError answers False.
IsCliCreatedZoneAlways(z) == TRUE

IsCliCreatedZone(z) == zones[z].tag = "cli"

\* cli_zones: the zones of list_hosted_zones() that pass the ownership check,
\* in the provider's order
CliZones == SelectSeq(ZoneOrder, LAMBDA z : zones[z].exists /\ IsCliCreatedZone(z))

Range(f) == {f[k] : k \in DOMAIN f}

\* list_resource_record_sets: the record sets in the provider's order: by name
\* (the zone's own name first), then by type
TypeOrder == <<"A", "NS", "SOA", "TXT">>

TypeRank(type) == CHOOSE k \in 1..Len(TypeOrder) : TypeOrder[k] = type

Rank(z, r) == (IF r.name = ZoneName(z) THEN 0 ELSE Len(TypeOrder)) + TypeRank(r.type)

ListResourceRecordSets(z) ==
    LET rs == zones[z].records IN
    [k \in 1..Cardinality(rs) |->
        CHOOSE r \in rs : Cardinality({q \in rs : Rank(z, q) < Rank(z, r)}) = k - 1]

DeletableAlways(record) == TRUE

\* deletable_records: "record['Type'] not in ['NS', 'SOA']"
Deletable(record) == record.type \notin {"NS", "SOA"}

DeletableRecords(record_sets) == SelectSeq(record_sets, Deletable)

\* str.isdigit and int
Digits == <<"0", "1", "2", "3", "4", "5", "6", "7", "8", "9">>

IsDigit(s) == s # <<>> /\ \A k \in 1..Len(s) : s[k] \in Range(Digits)

\* The provider stores a name fully qualified: with a trailing dot
Fqdn(name) == IF name # <<>> /\ name[Len(name)] = "." THEN name ELSE name \o <<".">>

SameKey(r, q) == Fqdn(r.name) = Fqdn(q.name) /\ r.type = q.type

Normal(r) == [r EXCEPT !.name = Fqdn(r.name)]

\* The provider's answer to change_resource_record_sets: an UPSERT replaces the
\* record set with that name and type or adds it, if the name lies in the
\* zone; a DELETE is accepted only for a record set the zone holds exactly as
\* given.
InZone(z, name) ==
    \/ name = ZoneName(z)
    \/ /\ Len(name) > Len(ZoneName(z)) + 1
       /\ SubSeq(name, Len(name) - Len(ZoneName(z)), Len(name)) = <<".">> \o ZoneName(z)

\* The values the provider takes for a type: a TXT value is in double quotes,
\* an NS or SOA value names a server
ValidValue(type, value) ==
    IF type = "TXT" THEN Len(value) >= 2 /\ value[1] = "\"" /\ value[Len(value)] = "\""
    ELSE IF type \in {"NS", "SOA"} THEN value = <<"n", "s">>
    ELSE IsDigit(value)

Permitted(z, action, r) ==
    IF action = "DELETE" THEN Normal(r) \in zones[z].records
    ELSE /\ InZone(z, Fqdn(r.name))
         /\ \A k \in 1..Len(r.values) : ValidValue(r.type, r.values[k])

ChangedAppends(rs, action, r) ==
    IF action = "DELETE" THEN rs \ {Normal(r)} ELSE rs \cup {Normal(r)}

Changed(rs, action, r) ==
    IF action = "DELETE" THEN rs \ {Normal(r)}
    ELSE {q \in rs : ~SameKey(q, r)} \cup {Normal(r)}

\* A mutating call on zone z, with the zone's ownership tag when it is made
ZoneCall(api, z, arg) == Call(api, z, [tag |-> zones[z].tag] @@ arg)

\* delete_dns_zone: the batch stops at the first DELETE that fails
BatchNeverAborts(failAt) == FALSE

BatchAborted(failAt) == failAt # 0

BatchCallsGoOn(z, deletable, failAt) ==
    [k \in 1..Len(deletable) |->
        ZoneCall("DELETE", z, [rr |-> deletable[k], ok |-> k # failAt])]

\* delete_dns_zone: the DELETE calls of the batch; failAt is the first record
\* whose DELETE raises (0: none does)
BatchCalls(z, deletable, failAt) ==
    [k \in 1..(IF failAt = 0 THEN Len(deletable) ELSE failAt) |->
        ZoneCall("DELETE", z, [rr |-> deletable[k], ok |-> k # failAt])]

Removed(cs) == {cs[k].arg.rr : k \in {j \in 1..Len(cs) : cs[j].arg.ok}}

\* delete_dns_zone
DeleteDnsZone ==
    LET cli_zones == CliZones
        base == [NoOp EXCEPT !.name = "delete_zone"]
    IN
    /\ shown' = Range(cli_zones)
    /\ IF cli_zones = <<>>
       THEN /\ op' = [base EXCEPT !.note = "no_zones"]
            /\ calls' = <<>>
            /\ UNCHANGED zones
       ELSE \E choice \in 0..Len(cli_zones) :
            IF choice = 0
            THEN /\ op' = [base EXCEPT !.note = "cancelled"]
                 /\ calls' = <<>>
                 /\ UNCHANGED zones
            ELSE
            LET z == cli_zones[choice]
                deletable == DeletableRecords(ListResourceRecordSets(z))
            IN
            \E confirm_delete_records \in (IF deletable = <<>> THEN {"y"} ELSE {"y", "n"}) :
            LET asked == IF deletable = <<>> THEN <<>>
                         ELSE <<Confirm(0, confirm_delete_records)>>
            IN
            IF Declined(confirm_delete_records)
            THEN /\ op' = [base EXCEPT !.note = "declined_records", !.confirmed = asked]
                 /\ calls' = <<>>
                 /\ UNCHANGED zones
            ELSE
            \E failAt \in 0..Len(deletable) :
            LET batch == BatchCalls(z, deletable, failAt)
                left == zones[z].records \ Removed(batch)
            IN
            IF BatchAborted(failAt)
            THEN /\ op' = [base EXCEPT !.note = "batch_failed", !.confirmed = asked]
                 /\ calls' = batch
                 /\ zones' = [zones EXCEPT ![z].records = left]
            ELSE
            \E confirm \in {"y", "n"} :
            \E ok \in Answers(confirm = "y") :
            IF Declined(confirm)
            THEN /\ op' = [base EXCEPT !.note = "declined",
                                       !.confirmed = Append(asked, Confirm(Len(batch), confirm))]
                 /\ calls' = batch
                 /\ zones' = [zones EXCEPT ![z].records = left]
            ELSE
            LET rest == {r \in left : Deletable(r)}
                accepted == ok /\ rest = {}
            IN
            /\ op' = [base EXCEPT !.note = IF accepted THEN "done" ELSE "failed",
                                  !.confirmed = Append(asked, Confirm(Len(batch), confirm))]
            /\ calls' = Append(batch, ZoneCall("delete_hosted_zone", z,
                              [listed |-> zones[z].records, left |-> rest, ok |-> accepted]))
            /\ zones' = IF accepted THEN [zones EXCEPT ![z] = NoZone]
                                    ELSE [zones EXCEPT ![z].records = left]
    /\ UNCHANGED notDns

\* str.endswith
EndsWith(s, suf) ==
    Len(suf) <= Len(s) /\ SubSeq(s, Len(s) - Len(suf) + 1, Len(s)) = suf

\* str.rstrip('.')
RECURSIVE RStripDot(_)
RStripDot(s) ==
    IF s # <<>> /\ s[Len(s)] = "." THEN RStripDot(SubSeq(s, 1, Len(s) - 1)) ELSE s

\* create_dns_record: the record name from the typed one; the prompt repeats
\* on a name that is refused
RecordName(input, selected_zone_name) ==
    LET record_name == Lower(Strip(input)) IN
    IF record_name = <<>> THEN [valid |-> TRUE, name |-> selected_zone_name]
    ELSE IF EndsWith(record_name, selected_zone_name)
         THEN [valid |-> TRUE, name |-> record_name]
    ELSE IF ~Contains(<<".">>, record_name)
         THEN [valid |-> TRUE, name |-> record_name \o <<".">> \o selected_zone_name]
    ELSE [valid |-> FALSE, name |-> record_name]

\* create_dns_record: a TXT value not already in double quotes is wrapped in them
Quote == <<"\"">>

RecordValueQuotesUnlessOpened(record_type, record_value) ==
    IF record_type = "TXT" /\ ~StartsWith(record_value, Quote)
    THEN Quote \o record_value \o Quote
    ELSE record_value

RecordValue(record_type, record_value) ==
    IF record_type = "TXT" /\ ~(StartsWith(record_value, Quote) /\ EndsWith(record_value, Quote))
    THEN Quote \o record_value \o Quote
    ELSE record_value

\* int of a string of digits
DigitValue(c) == (CHOOSE k \in 1..Len(Digits) : Digits[k] = c) - 1

RECURSIVE ToInt(_)
ToInt(s) == IF s = <<>> THEN 0 ELSE 10 * ToInt(SubSeq(s, 1, Len(s) - 1)) + DigitValue(s[Len(s)])

DefaultTtl == 300

TtlOrDefaultTtl(typed_ttl, default) ==
    IF IsDigit(typed_ttl) THEN ToInt(typed_ttl) ELSE DefaultTtl

\* int(ttl) if ttl.isdigit() else the default of the operation
Ttl(typed_ttl, default) == IF IsDigit(typed_ttl) THEN ToInt(typed_ttl) ELSE default

\* What is typed at the prompts of the record operations
RecordInputs == {[name |-> <<>>, type |-> "TXT"], [name |-> <<"W">>, type |-> "A"]}

ValueInputs == {<<"1">>}

TtlInputs == {<<>>}

UpdateInputs == {[value |-> <<>>, ttl |-> <<"x">>], [value |-> <<"2">>, ttl |-> <<"6", "0">>]}

\* The provider's answer to a change: refused when it raises or is not permitted
Apply(z, action, r, ok) ==
    IF ok /\ Permitted(z, action, r)
    THEN [zones EXCEPT ![z].records = Changed(@, action, r)]
    ELSE zones

\* Whether the operation before issued this same request, and the provider took it
Repeated(cs) == IF cs = calls /\ cs[1].arg.ok THEN "repeated" ELSE "none"

\* create_dns_record, with what is typed at its prompts taken from the given
\* sets; an empty value is asked again
CreateRecord(inputs, values, ttls) ==
    LET cli_zones == CliZones
        base == [NoOp EXCEPT !.name = "create_record"]
    IN
    /\ shown' = Range(cli_zones)
    /\ IF cli_zones = <<>>
       THEN /\ op' = [base EXCEPT !.note = "no_zones"]
            /\ calls' = <<>>
            /\ UNCHANGED zones
       ELSE \E choice \in 0..Len(cli_zones) :
            IF choice = 0
            THEN /\ op' = [base EXCEPT !.note = "cancelled"]
                 /\ calls' = <<>>
                 /\ UNCHANGED zones
            ELSE
            LET selected_zone_id == cli_zones[choice]
                selected_zone_name == RStripDot(ZoneName(selected_zone_id))
            IN
            \E in \in inputs, record_value \in values, ttl \in ttls :
            \E ok \in BOOLEAN :
            LET named == RecordName(in.name, selected_zone_name)
                rr == RecordSet(named.name, in.type, Ttl(Strip(ttl), DefaultTtl),
                                <<RecordValue(in.type, Strip(record_value))>>)
                done == ok /\ Permitted(selected_zone_id, "UPSERT", rr)
            IN
            /\ named.valid
            /\ Strip(record_value) # <<>>
            /\ calls' = <<ZoneCall("UPSERT", selected_zone_id,
                             [rr |-> rr, ok |-> done,
                              asked |-> [name |-> in.name, value |-> record_value,
                                         ttl |-> ttl]])>>
            /\ op' = [base EXCEPT !.observed = choice, !.precheck = Repeated(calls'),
                                  !.note = IF done THEN "done" ELSE "failed"]
            /\ zones' = Apply(selected_zone_id, "UPSERT", rr, ok)

CreateDnsRecord ==
    /\ CreateRecord(RecordInputs, ValueInputs, TtlInputs)
    /\ UNCHANGED notDns

\* update_dns_record
UpdateRecord(inputs) ==
    LET cli_zones == CliZones
        base == [NoOp EXCEPT !.name = "update_record"]
    IN
    /\ shown' = Range(cli_zones)
    /\ IF cli_zones = <<>>
       THEN /\ op' = [base EXCEPT !.note = "no_zones"]
            /\ calls' = <<>>
            /\ UNCHANGED zones
       ELSE \E choice \in 0..Len(cli_zones) :
            IF choice = 0
            THEN /\ op' = [base EXCEPT !.note = "cancelled"]
                 /\ calls' = <<>>
                 /\ UNCHANGED zones
            ELSE
            LET zone_id == cli_zones[choice]
                record_sets == ListResourceRecordSets(zone_id)
            IN
            \E record_choice \in 0..Len(record_sets) :
            IF record_choice = 0
            THEN /\ op' = [base EXCEPT !.note = "cancelled"]
                 /\ calls' = <<>>
                 /\ UNCHANGED zones
            ELSE
            \E in \in inputs, ok \in BOOLEAN :
            LET selected_record == record_sets[record_choice]
                old_value == selected_record.values[1]
                new_value == IF Strip(in.value) = <<>> THEN old_value ELSE Strip(in.value)
                rr == RecordSet(selected_record.name, selected_record.type,
                                Ttl(Strip(in.ttl), selected_record.ttl), <<new_value>>)
                done == ok /\ Permitted(zone_id, "UPSERT", rr)
            IN
            /\ calls' = <<ZoneCall("UPSERT", zone_id,
                             [rr |-> rr, ok |-> done, selected |-> selected_record,
                              asked |-> [name |-> <<>>, value |-> in.value, ttl |-> in.ttl]])>>
            /\ op' = [base EXCEPT !.observed = choice, !.precheck = Repeated(calls'),
                                  !.note = IF done THEN "done" ELSE "failed"]
            /\ zones' = Apply(zone_id, "UPSERT", rr, ok)

UpdateDnsRecord == UpdateRecord(UpdateInputs) /\ UNCHANGED notDns

\* delete_dns_record: the zone picked is kept in selected_zone_id, yet the
\* records are listed from and deleted in zone_id, which the loop that printed
\* the zones left at the last of cli_zones
DeleteDnsRecord ==
    LET cli_zones == CliZones
        base == [NoOp EXCEPT !.name = "delete_record"]
    IN
    /\ shown' = Range(cli_zones)
    /\ IF cli_zones = <<>>
       THEN /\ op' = [base EXCEPT !.note = "no_zones"]
            /\ calls' = <<>>
            /\ UNCHANGED zones
       ELSE \E choice \in 0..Len(cli_zones) :
            IF choice = 0
            THEN /\ op' = [base EXCEPT !.note = "cancelled"]
                 /\ calls' = <<>>
                 /\ UNCHANGED zones
            ELSE
            LET selected_zone_id == cli_zones[choice]
                zone_id == cli_zones[Len(cli_zones)]
                deletable_records == DeletableRecords(ListResourceRecordSets(zone_id))
            IN
            IF deletable_records = <<>>
            THEN /\ op' = [base EXCEPT !.note = "no_records"]
                 /\ calls' = <<>>
                 /\ UNCHANGED zones
            ELSE
            \E record_choice \in 0..Len(deletable_records), confirm \in {"y", "n"} :
            \E ok \in Answers(record_choice # 0 /\ confirm = "y") :
            IF record_choice = 0 \/ Declined(confirm)
            THEN /\ op' = [base EXCEPT !.note = "cancelled",
                                       !.confirmed = IF record_choice = 0 THEN <<>>
                                                     ELSE <<Confirm(0, confirm)>>]
                 /\ calls' = <<>>
                 /\ UNCHANGED zones
            ELSE
            LET selected_record == deletable_records[record_choice]
                rr == RecordSet(selected_record.name, selected_record.type,
                                selected_record.ttl, <<selected_record.values[1]>>)
                done == ok /\ Permitted(zone_id, "DELETE", rr)
            IN
            /\ op' = [base EXCEPT !.name = "delete_record", !.observed = choice,
                                  !.confirmed = <<Confirm(0, confirm)>>,
                                  !.note = IF done THEN "done" ELSE "failed"]
            /\ calls' = <<ZoneCall("DELETE", zone_id,
                             [rr |-> rr, ok |-> done, selected |-> selected_record])>>
            /\ zones' = Apply(zone_id, "DELETE", rr, ok)
    /\ UNCHANGED notDns

\* The account before the tool runs: hosted zones of the tool's and of others'.
InitZone(z) ==
    {NoZone} \cup {[exists |-> TRUE, tag |-> t, records |-> DefaultRecords(z) \cup rs] :
                      t \in {"cli", "other"}, rs \in SUBSET OtherRecords(z)}

InitDns ==
    /\ \E z1 \in InitZone("Z1"), z2 \in InitZone("Z2") :
          zones = [NoZones EXCEPT !["Z1"] = z1, !["Z2"] = z2]
    /\ instances = [i \in InstIds |-> NoInst] /\ buckets = NoBuckets /\ typed = <<>>
    /\ pc = "menu" /\ local = NoLocal
    /\ op = NoOp /\ shown = {} /\ calls = <<>>

NextDns ==
    \/ DeleteDnsZone
    \/ CreateDnsRecord
    \/ UpdateDnsRecord
    \/ DeleteDnsRecord

SpecDns == InitDns /\ [][NextDns]_vars

(***************************************************************************)
(* The value prompt of create_dns_record: any short text typed as the      *)
(* value of a record of any of a few types                                 *)
(***************************************************************************)
MaxValueLen == 3

ValueChars == {"1", "\"", " "}

TypedValues == UNION {[1..n -> ValueChars] : n \in 0..MaxValueLen}

TypedRecordInputs == {[name |-> <<"W">>, type |-> t] : t \in {"A", "TXT", "MX"}}

CreateDnsRecordTyped ==
    /\ pc = "value_typed"
    /\ CreateRecord(TypedRecordInputs, {typed}, TtlInputs)
    /\ pc' = "menu"
    /\ UNCHANGED <<instances, buckets, typed, local>>

InitValue ==
    /\ typed \in TypedValues
    /\ pc = "value_typed" /\ local = NoLocal
    /\ zones = [z \in ZoneIds |->
                  IF z = "Z3" THEN NoZone
                  ELSE [exists |-> TRUE, tag |-> "cli", records |-> DefaultRecords(z)]]
    /\ instances = [i \in InstIds |-> NoInst] /\ buckets = NoBuckets
    /\ op = NoOp /\ shown = {} /\ calls = <<>>

NextValue == CreateDnsRecordTyped

SpecValue == InitValue /\ [][NextValue]_vars

(***************************************************************************)
(* The ownership check: is_cli_created_zone and is_cli_created_bucket on   *)
(* any answer of the tag lookup                                            *)
(***************************************************************************)
OwnerName == "cli-meitaveini"

TagKeys == {"CreatedBy", "Owner", "createdby"}

TagValues == {OwnerName, "someone"}

\* Tag sets: each key at most once
TagSets ==
    UNION {{{[Key |-> k, Value |-> f[k]] : k \in ks} : f \in [ks -> TagValues]} :
             ks \in SUBSET TagKeys}

\* The tag lookup: list_tags_for_resource answers the tags of the zone or
\* raises ClientError; get_bucket_tagging also raises ClientError (NoSuchTagSet)
\* for a bucket that has no tags
ZoneLookup(tags, fails) == [raises |-> fails, tags |-> IF fails THEN {} ELSE tags]

BucketLookup(tags, fails) ==
    [raises |-> fails \/ tags = {}, tags |-> IF fails THEN {} ELSE tags]

\* The body both checks share: True at the CreatedBy tag of the tool, False
\* past the loop and past the ClientError that is caught
IsCliCreatedByKeyOnly(response) ==
    IF response.raises THEN "False"
    ELSE IF \E tag \in response.tags : tag.Key = "CreatedBy" THEN "True" ELSE "False"

IsCliCreated(response) ==
    IF response.raises THEN "False"
    ELSE IF \E tag \in response.tags : tag.Key = "CreatedBy" /\ tag.Value = OwnerName
         THEN "True"
         ELSE "False"

OwnershipChecked(kind) ==
    /\ pc = "tags" /\ local.kind = kind
    /\ op' = [NoOp EXCEPT !.name = "ownership_check",
                          !.note = IsCliCreated(IF kind = "zone"
                                                THEN ZoneLookup(local.tags, local.fails)
                                                ELSE BucketLookup(local.tags, local.fails))]
    /\ pc' = "menu"
    /\ UNCHANGED <<instances, buckets, zones, typed, local, shown, calls>>

IsCliCreatedZoneChecked == OwnershipChecked("zone")

IsCliCreatedBucketChecked == OwnershipChecked("bucket")

InitTags ==
    /\ local \in [kind : {"zone", "bucket"}, tags : TagSets, fails : BOOLEAN]
    /\ pc = "tags" /\ typed = <<>>
    /\ instances = [i \in InstIds |-> NoInst] /\ buckets = NoBuckets /\ zones = NoZones
    /\ op = NoOp /\ shown = {} /\ calls = <<>>

NextTags ==
    \/ IsCliCreatedZoneChecked
    \/ IsCliCreatedBucketChecked

SpecTags == InitTags /\ [][NextTags]_vars

(***************************************************************************)
(* The operations of the three managers that terminate or delete, one at   *)
(* a time, on an account that holds instances, buckets or zones            *)
(***************************************************************************)
InitDelete == InitEc2 \/ InitS3 \/ InitDns

NextDelete ==
    \/ AtMenu /\ DeleteInstance
    \/ AtMenu /\ ProviderSettles
    \/ DeleteS3Bucket
    \/ DeleteBucketAnswer
    \/ CheckAndDeleteFilesInBucket
    \/ DeleteBucketConfirm
    \/ AtMenu /\ DeleteDnsZone
    \/ AtMenu /\ DeleteDnsRecord

SpecDelete == InitDelete /\ [][NextDelete]_vars

(***************************************************************************)
(* The dispatcher: src/aws_manager.py, and the menus of the managers it    *)
(* enters                                                                  *)
(***************************************************************************)
\* The command line: nothing, or the create-instance subcommand with --type
\* and --ami
Argv == {<<>>} \cup {<<"create-instance", type, ami>> :
                       type \in {"t3.nano", "t4g.nano"}, ami \in {"ubuntu", "amazon-linux"}}

\* def create_ec2_instance(): the parameters of the function
CreateEc2InstanceParameters == <<>>

\* A call binds its positional arguments to the parameters, or raises TypeError
Binds(parameters, args) == Len(args) = Len(parameters)

\* main of aws_manager.py up to the menu: with the subcommand it calls
\* create_ec2_instance(args.type, args.ami) and exits; without, it prints the menu
Main ==
    /\ pc = "start"
    /\ IF typed # <<>>
       THEN LET args == <<typed[2], typed[3]>> IN
            IF Binds(CreateEc2InstanceParameters, args)
            THEN /\ op' = [NoOp EXCEPT !.name = "create-instance", !.note = "entered"]
                 /\ pc' = "create_ec2_instance"
            ELSE /\ op' = [NoOp EXCEPT !.name = "create-instance", !.note = "crashed"]
                 /\ pc' = "ended"
       ELSE /\ op' = [NoOp EXCEPT !.name = "dispatch", !.note = "prompt"]
            /\ pc' = "dispatcher"
    /\ calls' = <<>>
    /\ UNCHANGED <<instances, buckets, zones, typed, local, shown>>

\* What is typed at a menu
MenuChoices == {"1", "2", "3", "4", "5", "9", ""}

\* main of aws_manager.py at its menu: one input, one if/elif chain; after the
\* else branch the function returns and the run ends
Dispatch ==
    /\ pc = "dispatcher"
    /\ \E choice \in MenuChoices :
         /\ op' = [NoOp EXCEPT !.name = "dispatch",
                               !.note = IF choice \in {"1", "2", "3"} THEN "entered"
                                        ELSE IF choice = "4" THEN "exit"
                                        ELSE "invalid"]
         /\ pc' = CASE choice = "1" -> "ec2_main"
                    [] choice = "2" -> "s3_main"
                    [] choice = "3" -> "route53_main"
                    [] OTHER -> "ended"
    /\ calls' = <<>>
    /\ UNCHANGED <<instances, buckets, zones, typed, local, shown>>

\* ACTION_MAP of the main of each manager
ActionMap(manager) ==
    CASE manager = "ec2_main" -> {"1", "2", "3", "4"}
      [] manager = "s3_main" -> {"1", "2", "3", "4"}
      [] manager = "route53_main" -> {"1", "2", "3", "4", "5"}

\* main of a manager: the menu is shown again until the choice is in ACTION_MAP,
\* then the chosen handler runs once
ManagerMain ==
    /\ pc \in {"ec2_main", "s3_main", "route53_main"}
    /\ \E choice \in MenuChoices :
         IF choice \in ActionMap(pc)
         THEN /\ op' = [op EXCEPT !.name = pc, !.note = choice]
              /\ pc' = "handler"
         ELSE /\ op.observed < MaxTries
              /\ op' = [op EXCEPT !.name = pc, !.note = "invalid", !.observed = @ + 1]
              /\ pc' = pc
    /\ calls' = <<>>
    /\ UNCHANGED <<instances, buckets, zones, typed, local, shown>>

InitCli ==
    /\ typed \in Argv
    /\ instances \in [InstIds -> {NoInst} \cup
                         [state : {"running", "stopped"}, name : InstNames, cli : BOOLEAN]]
    /\ \A i \in Allocated : /\ instances[i].name = NameTag(i)
                            /\ (i # 1 => instances[i].cli)
    /\ \A i \in InstIds : instances[i].state = "none" =>
                            \A j \in InstIds : j > i => instances[j].state = "none"
    /\ Cardinality(Running) <= 2
    /\ buckets = NoBuckets /\ zones = NoZones
    /\ pc = "start" /\ local = NoLocal
    /\ op = NoOp /\ shown = {} /\ calls = <<>>

NextCli ==
    \/ Main
    \/ Dispatch
    \/ ManagerMain

SpecCli == InitCli /\ [][NextCli]_vars

(***************************************************************************)
(* The Storage Manager's create operation: get_available_bucket_name and   *)
(* create_s3_bucket                                                        *)
(***************************************************************************)
\* A bucket name that another account holds: the probe of it is refused
Taken == <<"n", "o", "n", "e">>

\* What is typed at the name prompt of get_available_bucket_name
CreateInputs == BucketNames \cup {Taken, Quit, <<"Q">>, <<"a", "w", "s">>, <<"L", "o", "g", "s">>}

\* s3.head_bucket(Bucket=bucket_name): "200" when the account holds the bucket;
\* otherwise a ClientError with code "404" (no such bucket), "403" (another
\* account's bucket) or "500", or an exception that is not a ClientError
HeadBucket(bucket_name) ==
    IF bucket_name \in Existing THEN {"200"}
    ELSE IF bucket_name = Taken THEN {"403", "500", "raised"}
    ELSE {"404", "500", "raised"}

AvailableOnAnyError(code) == TRUE

\* if e.response['Error']['Code'] == "404": return bucket_name
Available(code) == code = "404"

\* create_s3_bucket up to the prompt of get_available_bucket_name: the answer
\* at "Enter bucket name: " is overwritten before it is used
CreateS3Bucket ==
    /\ AtMenu
    /\ op' = Begin("create_bucket")
    /\ pc' = "create_name"
    /\ shown' = {} /\ calls' = <<>>
    /\ UNCHANGED <<buckets, local, notS3>>

\* get_available_bucket_name: one answer at its prompt.  head_bucket is called
\* in a try that catches ClientError only; any other exception leaves the
\* operation.
GetAvailableBucketName ==
    /\ pc = "create_name"
    /\ \E name \in CreateInputs :
       LET bucket_name == Strip(name) IN
         IF Lower(bucket_name) = Quit
         THEN /\ op' = [op EXCEPT !.note = "cancelled"]
              /\ pc' = "menu"
              /\ UNCHANGED <<local, calls>>
         ELSE IF ~IsValidBucketName(bucket_name)
         THEN /\ op.observed < MaxTries
              /\ op' = [op EXCEPT !.note = "invalid", !.observed = @ + 1]
              /\ UNCHANGED <<pc, local, calls>>
         ELSE \E code \in HeadBucket(bucket_name) :
                /\ calls' = Append(calls, Call("head_bucket", bucket_name, [code |-> code]))
                /\ IF code = "raised"
                   THEN /\ op' = [op EXCEPT !.note = "crashed"]
                        /\ pc' = "menu"
                        /\ UNCHANGED local
                   ELSE IF code = "200"
                   THEN /\ op.observed < MaxTries
                        /\ op' = [op EXCEPT !.note = "taken", !.observed = @ + 1]
                        /\ UNCHANGED <<pc, local>>
                   ELSE IF Available(code)
                   THEN /\ op' = [op EXCEPT !.note = "available"]
                        /\ pc' = "create_access"
                        /\ local' = [local EXCEPT !.bucket_name = bucket_name]
                   ELSE /\ op.observed < MaxTries
                        /\ op' = [op EXCEPT !.note = "unavailable", !.observed = @ + 1]
                        /\ UNCHANGED <<pc, local>>
    /\ UNCHANGED <<buckets, shown, notS3>>

\* The provider calls of create_s3_bucket after the name, in order
CreateSteps(access_type) ==
    <<"create_bucket", "put_bucket_tagging">> \o
    (IF access_type = "public" THEN <<"put_public_access_block", "put_bucket_policy">>
     ELSE <<>>)

\* What a successful step leaves at the provider
StepEffect(b, api) ==
    CASE api = "create_bucket" -> [NoBucket EXCEPT !.exists = TRUE]
      [] api = "put_bucket_tagging" -> [b EXCEPT !.tag = "cli"]
      [] api = "put_public_access_block" -> [b EXCEPT !.access = "unblocked"]
      [] api = "put_bucket_policy" -> [b EXCEPT !.access = "public"]

\* The bucket after the steps of done, applied in the order of the sequence
RECURSIVE AfterSteps(_, _, _, _)
AfterSteps(b, steps, done, n) ==
    IF n = 0 THEN b
    ELSE LET before == AfterSteps(b, steps, done, n - 1)
         IN  IF n \in done THEN StepEffect(before, steps[n]) ELSE before

StepFailureIgnored(failAt, k) == TRUE

\* The steps are statements of one try block: step k is reached only when no
\* earlier step raised
StepReached(failAt, k) == failAt = 0 \/ k <= failAt

\* create_s3_bucket after the name: the access prompt, then the steps inside
\* one try; failAt is the step that raises (0: none)
CreateBucketSteps ==
    /\ pc = "create_access"
    /\ \E access_type \in {"public", "private", ""} :
       LET steps == CreateSteps(access_type) IN
       \E failAt \in 0..Len(steps) :
       LET bucket_name == local.bucket_name
           reached == {k \in 1..Len(steps) : StepReached(failAt, k)}
           done == {k \in reached : k # failAt}
           issued == [k \in 1..Cardinality(reached) |->
                        Call(steps[k], bucket_name, [ok |-> k # failAt, access |-> access_type])]
       IN  /\ calls' = calls \o issued
           /\ buckets' = [buckets EXCEPT ![bucket_name] =
                            AfterSteps(@, steps, done, Len(steps))]
           /\ op' = [op EXCEPT !.note = IF failAt = 0 THEN "done" ELSE "failed",
                               !.observed = failAt]
    /\ pc' = "menu" /\ local' = NoLocal
    /\ UNCHANGED <<shown, notS3>>

NextBucket ==
    \/ CreateS3Bucket
    \/ GetAvailableBucketName
    \/ CreateBucketSteps
    \/ DeleteS3Bucket
    \/ DeleteBucketAnswer
    \/ CheckAndDeleteFilesInBucket
    \/ DeleteBucketConfirm

SpecBucket == InitS3 /\ [][NextBucket]_vars

(***************************************************************************)
(* The DNS Manager's update and delete of a record, in a zone that also    *)
(* holds a record set of several values                                    *)
(***************************************************************************)
\* A record set of two values, as list_resource_record_sets returns it
SeveralValues(z) == {RecordSet(ZoneName(z), "A", 300, <<<<"1">>, <<"2">>>>)}

\* What is typed at the value and TTL prompts of update_dns_record
TypedUpdateInputs ==
    {[value |-> <<>>, ttl |-> <<>>],
     [value |-> <<" ">>, ttl |-> <<"x">>],
     [value |-> <<"t">>, ttl |-> <<>>],
     [value |-> <<"\"", "t", "\"">>, ttl |-> <<"6", "0">>]}

UpdateDnsRecordTyped == UpdateRecord(TypedUpdateInputs) /\ UNCHANGED notDns

InitRecord ==
    /\ \E rs \in SUBSET (OtherRecords("Z1") \cup SeveralValues("Z1")) :
         zones = [NoZones EXCEPT !["Z1"] =
                    [exists |-> TRUE, tag |-> "cli", records |-> DefaultRecords("Z1") \cup rs]]
    /\ instances = [i \in InstIds |-> NoInst] /\ buckets = NoBuckets /\ typed = <<>>
    /\ pc = "menu" /\ local = NoLocal
    /\ op = NoOp /\ shown = {} /\ calls = <<>>

NextRecord ==
    \/ UpdateDnsRecordTyped
    \/ DeleteDnsRecord

SpecRecord == InitRecord /\ [][NextRecord]_vars

(***************************************************************************)
(* The DNS Manager's zone create: get_domain_name and create_dns_zone      *)
(***************************************************************************)
\* tlds of get_domain_name
Tlds == << <<".", "c", "o", "m">>, <<".", "n", "e", "t">>, <<".", "o", "r", "g">>,
           <<".", "i", "n", "f", "o">>, <<".", "i", "o">>, <<".", "c", "o">>,
           <<".", "t", "e", "c", "h">>, <<".", "a", "i">> >>

\* What is typed at the name prompt and at the TLD prompt.  Both prompts repeat
\* on an answer they refuse (an empty name, a number outside the list), so the
\* answers that end them are drawn here
DomainInputs == {<<"a">>, <<"A">>, <<"b">>, <<" ", "b">>, Quit, <<"Q">>}

TldInputs == {<<"5">>, Quit}

\* get_domain_name: the assembled name, or <<>> for None
GetDomainName(typed_name, typed_tld) ==
    LET domain_name == Strip(typed_name)
        tld_choice == Strip(typed_tld)
    IN  IF Lower(domain_name) = Quit THEN <<>>
        ELSE IF Lower(tld_choice) = Quit THEN <<>>
        ELSE domain_name \o Tlds[ToInt(tld_choice)]

\* any(zone['Name'].rstrip('.') == domain_name for zone in existing_zones)
ExistsAlready(domain_name, existing_zones) ==
    \E k \in 1..Len(existing_zones) : RStripDot(ZoneName(existing_zones[k])) = domain_name

\* list_hosted_zones: every hosted zone of the account
ListHostedZones == SelectSeq(ZoneOrder, LAMBDA z : zones[z].exists)

\* The provider's create_hosted_zone: the domain is stored in lower case with a
\* trailing dot, under an id that is not in use ("": the ids of the model for
\* that domain are used up)
NewZoneId(name) ==
    LET free == {z \in ZoneIds : ~zones[z].exists /\ ZoneName(z) = Fqdn(Lower(name))}
        rank(z) == CHOOSE k \in 1..Len(ZoneOrder) : ZoneOrder[k] = z
    IN  IF free = {} THEN ""
        ELSE CHOOSE z \in free : \A y \in free : rank(z) <= rank(y)

\* create_dns_zone, up to its first prompt
CreateDnsZone ==
    /\ AtMenu
    /\ op' = Begin("create_zone")
    /\ pc' = "zone_name"
    /\ shown' = {} /\ calls' = <<>>
    /\ UNCHANGED <<zones, instances, buckets, typed, local>>

\* create_dns_zone: one pass of its loop.  A ClientError of any call is printed
\* and the loop goes on with the name prompt
CreateDnsZonePass ==
    /\ pc = "zone_name"
    /\ \E typed_name \in DomainInputs, typed_tld \in TldInputs, listOk \in BOOLEAN :
       LET domain_name == GetDomainName(typed_name, typed_tld)
           existing_zones == ListHostedZones
           hosted_zone_id == NewZoneId(domain_name)
           again(note) == /\ op.observed < MaxTries
                          /\ op' = [op EXCEPT !.note = note, !.observed = @ + 1]
                          /\ pc' = pc
       IN
       IF domain_name = <<>>
       THEN /\ op' = [op EXCEPT !.note = "cancelled"]
            /\ pc' = "menu"
            /\ UNCHANGED <<zones, calls>>
       ELSE IF ~listOk
       THEN /\ again("failed")
            /\ UNCHANGED <<zones, calls>>
       ELSE IF ExistsAlready(domain_name, existing_zones)
       THEN /\ again("exists")
            /\ UNCHANGED <<zones, calls>>
       ELSE
       \E created \in (IF hosted_zone_id = "" THEN {FALSE} ELSE BOOLEAN), tagged \in BOOLEAN :
       LET create == Call("create_hosted_zone", domain_name,
                          [ok |-> created, id |-> hosted_zone_id,
                           listed |-> {ZoneName(z) : z \in Range(existing_zones)}])
           tag == Call("change_tags_for_resource", hosted_zone_id, [ok |-> tagged])
           zone == [exists |-> TRUE, tag |-> IF tagged THEN "cli" ELSE "untagged",
                    records |-> DefaultRecords(hosted_zone_id)]
       IN
       IF ~created
       THEN /\ again("failed")
            /\ calls' = Append(calls, create)
            /\ UNCHANGED zones
       ELSE /\ calls' = calls \o <<create, tag>>
            /\ zones' = [zones EXCEPT ![hosted_zone_id] = zone]
            /\ IF tagged
               THEN /\ op' = [op EXCEPT !.note = "done"]
                    /\ pc' = "menu"
               ELSE again("failed")
    /\ shown' = {}
    /\ UNCHANGED <<instances, buckets, typed, local>>

NextZone ==
    \/ CreateDnsZone
    \/ CreateDnsZonePass

SpecZone == InitDns /\ [][NextZone]_vars

(***************************************************************************)
(* The DNS Manager's record create, with the names typed at its name       *)
(* prompt                                                                  *)
(***************************************************************************)
\* What is typed at the name prompt: nothing, a label, a name under a zone, a
\* name that ends in the letters of a zone's name, a name of another domain
TypedRecordNames ==
    {<<>>, <<"W">>, <<"w", ".", "a", ".", "i", "o">>, <<"x", "a", ".", "i", "o">>,
     <<"w", ".", "c", ".", "i", "o">>}

NamedRecordInputs == {[name |-> n, type |-> "A"] : n \in TypedRecordNames}

CreateDnsRecordNamed ==
    CreateRecord(NamedRecordInputs, ValueInputs, TtlInputs) /\ UNCHANGED notDns

NextRecordName ==
    \/ CreateDnsRecordNamed
    \/ DeleteDnsRecord

SpecRecordName == InitDns /\ [][NextRecordName]_vars

(***************************************************************************)
(* Two runs of the Instance Manager against one account: each provider     *)
(* call of a run is a step of its own, and the steps of the runs           *)
(* interleave.  pc and local hold one entry for each run.                  *)
(***************************************************************************)
Runs == {"r1", "r2"}

\* What a run has read so far: the action asked for, the instance object it
\* resolved and the state in that object, and the number of running instances
\* its pre-check counted
NoObservation == [action |-> "none", instance |-> 0, state |-> "none", running |-> 0]

\* What the provider holds now for what a run observed
Current(obs) ==
    [obs EXCEPT !.state = IF obs.instance = 0 THEN "none" ELSE instances[obs.instance].state,
                !.running = Cardinality(Running)]

ActsOnCurrent(obs, current) == current

\* The action call is decided on instance_state and on the answer of
\* check_running_instances, both read before it; nothing is read again
ActsOn(obs, current) == obs

\* manage_ec2_instance up to instance_state: the listing, the lookup and the
\* state carried by the object found
Resolve(r) ==
    /\ pc[r] = "menu"
    /\ \E action \in {"start", "stop"}, ident \in Identifiers :
       LET filter_state == ValidState(action)
           filtered == FilteredInstances(ident, filter_state)
       IN  \E pick \in Picks(filtered) :
           LET instance == GetInstanceByName(filtered, pick) IN
           /\ InState({filter_state}) # {}
           /\ instance # 0
           /\ local' = [local EXCEPT ![r] = [NoObservation EXCEPT
                            !.action = action, !.instance = instance,
                            !.state = instances[instance].state]]
           /\ pc' = [pc EXCEPT ![r] = "resolved"]
    /\ UNCHANGED <<instances, buckets, zones, typed, op, shown, calls>>

\* manage_ec2_instance: the state check on instance_state, then for start
\* check_running_instances, which lists the running instances
PreCheck(r) ==
    /\ pc[r] = "resolved"
    /\ LET obs == local[r]
           n == Cardinality(Running)
       IN  IF WrongState(obs.state, obs.action)
              \/ (obs.action = "start" /\ ~CheckRunningInstances(n))
           THEN /\ pc' = [pc EXCEPT ![r] = "done"]
                /\ UNCHANGED local
           ELSE /\ pc' = [pc EXCEPT ![r] = "checked"]
                /\ local' = [local EXCEPT ![r].running = IF obs.action = "start" THEN n ELSE 0]
    /\ UNCHANGED <<instances, buckets, zones, typed, op, shown, calls>>

\* create_ec2_instance up to its prompts: check_running_instances
CreatePreCheck(r) ==
    /\ pc[r] = "menu"
    /\ LET n == Cardinality(Running) IN
       IF ~CheckRunningInstances(n)
       THEN /\ pc' = [pc EXCEPT ![r] = "done"]
            /\ UNCHANGED local
       ELSE /\ pc' = [pc EXCEPT ![r] = "checked"]
            /\ local' = [local EXCEPT ![r] = [NoObservation EXCEPT
                             !.action = "create", !.running = n]]
    /\ UNCHANGED <<instances, buckets, zones, typed, op, shown, calls>>

\* The provider's answer to an action call of a run: start moves a stopped
\* instance and stop a running one; create_instances adds an instance
Provider(obs) ==
    LET i == obs.instance IN
    CASE obs.action = "start" ->
           IF instances[i].state = "stopped" THEN SetState(i, "pending") ELSE instances
      [] obs.action = "stop" ->
           IF instances[i].state = "running" THEN SetState(i, "stopping") ELSE instances
      [] obs.action = "create" ->
           [instances EXCEPT ![FreshId] =
               [state |-> "pending", name |-> NameTag(FreshId), cli |-> TRUE]]

\* getattr(instance, action)() of manage_ec2_instance, and create_instances of
\* create_ec2_instance
Act(r) ==
    /\ pc[r] = "checked"
    /\ LET obs == local[r]
           basis == ActsOn(obs, Current(obs))
           go == /\ (basis.action \in {"start", "stop"}
                       => ~WrongState(basis.state, basis.action))
                 /\ (basis.action \in {"start", "create"}
                       => CheckRunningInstances(basis.running))
       IN  /\ obs.action = "create" => FreshId # 0
           /\ IF go
              THEN /\ calls' = Append(calls,
                          Call(IF obs.action = "create" THEN "create_instances" ELSE obs.action,
                               obs.instance, [run |-> r, observed |-> obs]))
                   /\ instances' = Provider(obs)
              ELSE UNCHANGED <<calls, instances>>
    /\ pc' = [pc EXCEPT ![r] = "done"]
    /\ UNCHANGED <<buckets, zones, typed, local, op, shown>>

InitRace ==
    /\ instances \in [InstIds -> {NoInst} \cup
                         [state : {"running", "stopped"}, name : InstNames, cli : BOOLEAN]]
    /\ \A i \in Allocated : /\ instances[i].name = NameTag(i)
                            /\ (i # 1 => instances[i].cli)
    /\ \A i \in InstIds : instances[i].state = "none" =>
                            \A j \in InstIds : j > i => instances[j].state = "none"
    /\ Cardinality(Running) <= 2
    /\ buckets = NoBuckets /\ zones = NoZones /\ typed = <<>>
    /\ pc = [r \in Runs |-> "menu"] /\ local = [r \in Runs |-> NoObservation]
    /\ op = NoOp /\ shown = {} /\ calls = <<>>

NextRace ==
    \/ \E r \in Runs : Resolve(r)
    \/ \E r \in Runs : PreCheck(r)
    \/ \E r \in Runs : CreatePreCheck(r)
    \/ \E r \in Runs : Act(r)
    \/ ProviderSettles

SpecRace == InitRace /\ [][NextRace]_vars

(***************************************************************************)
(* Properties of the Instance Manager                                      *)
(***************************************************************************)

\* C1: in every reachable state at most two instances are running, also when
\* an instance the tool created or started is still pending at the next
\* pre-check and becomes running later.
RunningAtMostTwo == Cardinality(Running) <= 2

\* C2: a pre-check that observes exactly 2 running instances refuses the create
\* or start (no provider call); one that observes 0 or 1 lets the operation
\* reach its provider call, unless the user quits at a later prompt.
CapRefusesAtTwoAndPassesBelow ==
    op.precheck # "none" =>
        /\ op.observed = 2 => op.precheck = "refuse" /\ calls = <<>>
        /\ op.observed \in {0, 1} /\ op.note # "exit" =>
               /\ op.precheck = "pass"
               /\ Len(calls) = 1
               /\ calls[1].api = (IF op.name = "create" THEN "create_instances"
                                                        ELSE "start")

StartRefusedAtTwo ==
    op.name = "start" /\ op.precheck = "refuse" /\ op.observed = 2 /\ calls = <<>>

\* C3: no resource without the tag CreatedBy = OWNER_NAME is ever printed in a
\* listing or offered for selection.
ShownAreCliCreated == \A i \in shown : instances[i].cli

\* C4: every start, stop or terminate call targets an instance that carries
\* the tag CreatedBy = OWNER_NAME.
ActedOnAreCliCreated ==
    \A k \in 1..Len(calls) :
        calls[k].api \in {"start", "stop", "terminate"} =>
            instances[calls[k].target].cli

(***************************************************************************)
(* Properties of the Storage Manager                                       *)
(***************************************************************************)

\* C5: every delete_object and delete_bucket call of the bucket delete
\* operation targets a bucket the ownership check answered true for.
DeletesOnlyCliBuckets ==
    op.name = "delete_bucket" =>
        \A k \in 1..Len(calls) :
            calls[k].api \in {"delete_object", "delete_bucket"} =>
                calls[k].target \in shown

\* C6: upload_file goes only to a bucket of the tool-owned set computed when
\* the operation started; any other name is asked again, and 'q' at the bucket
\* prompt ends the operation with no upload.
UploadsOnlyToCliBuckets ==
    /\ pc = "upload_file" => local.bucket_name \in shown
    /\ op.name = "upload" =>
          /\ \A k \in 1..Len(calls) :
                calls[k].api = "upload_file" /\ calls[k].target \in shown
          /\ op.note = "cancelled" => calls = <<>>

UploadedAfterRejectedName ==
    /\ op.name = "upload" /\ op.observed >= 1
    /\ Len(calls) >= 1 /\ calls[1].arg.ok
    /\ calls[1].target \in shown

\* C8: delete_bucket is issued only for a bucket that holds no objects: when
\* the listing found files in the bucket (arg.found), the bucket is empty
\* (arg.left) when the call is made.
DeleteBucketOnlyWhenEmpty ==
    \A k \in 1..Len(calls) :
        calls[k].api = "delete_bucket" /\ calls[k].arg.found > 0 =>
            calls[k].arg.left = {}

\* The rules a bucket name has to satisfy, as the documentation states them
LengthRule(s) == Len(s) >= 3 /\ Len(s) <= 63

CharacterRule(s) ==
    \A k \in 1..Len(s) : s[k] \in LowerAlnum \/ s[k] = "." \/ s[k] = "-"

EndsRule(s) == s # <<>> => s[1] \in LowerAlnum /\ s[Len(s)] \in LowerAlnum

Adjacent(s, c, d) == \E k \in 1..(Len(s) - 1) : s[k] = c /\ s[k + 1] = d

AdjacencyRule(s) ==
    ~Adjacent(s, ".", ".") /\ ~Adjacent(s, ".", "-") /\ ~Adjacent(s, "-", ".")

PrefixRule(s) ==
    /\ ~(Len(s) >= 4 /\ SubSeq(s, 1, 4) = <<"x", "n", "-", "-">>)
    /\ ~(Len(s) >= 7 /\ SubSeq(s, 1, 7) = <<"s", "t", "h", "r", "e", "e", "-">>)

ReservedRule(s) ==
    /\ ~\E k \in 1..(Len(s) - 2) : s[k] = "a" /\ s[k + 1] = "w" /\ s[k + 2] = "s"
    /\ ~\E k \in 1..(Len(s) - 1) : s[k] = "s" /\ s[k + 1] = "3"

SatisfiesEveryRule(s) ==
    /\ LengthRule(s) /\ CharacterRule(s) /\ EndsRule(s)
    /\ AdjacencyRule(s) /\ PrefixRule(s) /\ ReservedRule(s)

ZoneCalls == {"UPSERT", "DELETE", "delete_hosted_zone"}

\* C9: in the zone delete operation delete_hosted_zone is issued only when
\* every listed record set of a type other than NS and SOA has been removed by
\* a successful DELETE of the batch before it (none listed, none to remove);
\* when the user declines the batch delete, the operation issues no call.
ZoneDeletedOnlyWhenCleared ==
    /\ \A k \in DOMAIN calls :
          calls[k].api = "delete_hosted_zone" =>
              \A r \in calls[k].arg.listed :
                  r.type \notin {"NS", "SOA"} =>
                      \E j \in 1..(k - 1) :
                          /\ calls[j].api = "DELETE"
                          /\ calls[j].target = calls[k].target
                          /\ calls[j].arg.rr = r
                          /\ calls[j].arg.ok
    /\ op.name = "delete_zone" /\ op.note = "declined_records" => calls = <<>>

\* A zone that held two records besides NS and SOA is deleted after the batch
ZoneDeletedAfterBatch ==
    /\ op.name = "delete_zone"
    /\ Len(calls) = 3
    /\ calls[3].api = "delete_hosted_zone"
    /\ calls[3].arg.ok
    /\ ~zones[calls[3].target].exists

\* C10: every record UPSERT, record DELETE and delete_hosted_zone the tool
\* issues targets a zone that passed the ownership check of the operation
\* issuing it, and that carries the CreatedBy tag of the tool when called.
ZoneCallsTargetOwnedZones ==
    \A k \in DOMAIN calls :
        calls[k].api \in ZoneCalls =>
            /\ calls[k].target \in shown
            /\ calls[k].arg.tag = "cli"

\* A record is deleted in the tool's zone while another's zone exists
RecordDeletedBesideForeignZone ==
    /\ op.name = "delete_record"
    /\ Len(calls) = 1
    /\ calls[1].api = "DELETE"
    /\ calls[1].arg.ok
    /\ \E z \in ZoneIds : zones[z].exists /\ zones[z].tag = "other" /\
                            Cardinality(zones[z].records) > 2

\* C11: in the record delete operation the DELETE call is issued against the
\* zone whose number the user selected among the tool-owned zones listed.
RecordDeletedInSelectedZone ==
    op.name = "delete_record" /\ calls # <<>> =>
        \A k \in DOMAIN calls : calls[k].target = CliZones[op.observed]

\* C12: in record create the value sent in the upsert is, for type TXT, the
\* entered value (without the blanks around it) wrapped in double quotes when
\* it does not both start and end with a double quote, and the entered value
\* itself when it does; for any other type it is the entered value itself.
Quoted(v) == v # <<>> /\ v[1] = "\"" /\ v[Len(v)] = "\""

CreateSendsTxtQuoted ==
    op.name = "create_record" =>
        \A k \in DOMAIN calls :
            LET entered == Strip(calls[k].arg.asked.value)
                sent == calls[k].arg.rr.values
            IN  sent = IF calls[k].arg.rr.type = "TXT" /\ ~Quoted(entered)
                       THEN <<(<<"\"">> \o entered) \o <<"\"">>>>
                       ELSE <<entered>>

\* A TXT value typed without quotes is wrapped, and stored
TxtValueWrapped ==
    /\ op.name = "create_record" /\ op.note = "done"
    /\ Len(calls) = 1
    /\ calls[1].arg.rr.type = "TXT"
    /\ calls[1].arg.asked.value = <<"1", " ", "1">>
    /\ calls[1].arg.rr.values = <<<<"\"", "1", " ", "1", "\"">>>>

SameCreateTwice ==
    /\ op.name = "create_record" /\ op.precheck = "repeated" /\ op.note = "done"

(***************************************************************************)
(* Properties of the ownership check                                       *)
(***************************************************************************)
\* C14: the ownership check answers true exactly when the tag lookup succeeds
\* and the tag set holds the key CreatedBy with the tool's owner name; with no
\* tags, with the key under another value, or when the lookup fails with a
\* client error it answers false, and it raises in none of these cases.
OwnershipCheckMatchesTag ==
    op.name = "ownership_check" =>
        /\ op.note \in {"True", "False"}
        /\ op.note = "True" <=>
              /\ ~local.fails
              /\ [Key |-> "CreatedBy", Value |-> "cli-meitaveini"] \in local.tags

\* The check answered false for a zone that carries the key under another value
OtherOwnerIsNotOwned ==
    /\ op.name = "ownership_check" /\ op.note = "False"
    /\ local.kind = "zone" /\ ~local.fails
    /\ [Key |-> "CreatedBy", Value |-> "someone"] \in local.tags
    /\ [Key |-> "Owner", Value |-> "cli-meitaveini"] \in local.tags

(***************************************************************************)
(* Properties of all managers                                              *)
(***************************************************************************)
\* C15: a failure of any provider call made during an operation is caught: no
\* operation ends the process abnormally.
NoOperationCrashes == op.note # "crashed"

\* C16: every instance terminate, delete_bucket, delete_hosted_zone and record
\* DELETE call is issued after the user answered 'y' at a confirmation prompt
\* of the same operation, and none is issued after any other answer.
Destructive == {"terminate", "delete_bucket", "delete_hosted_zone", "DELETE"}

DestructiveCallsConfirmed ==
    \A k \in DOMAIN calls :
        calls[k].api \in Destructive =>
            /\ \E j \in DOMAIN op.confirmed :
                  op.confirmed[j].at < k /\ op.confirmed[j].answer = "y"
            /\ \A j \in DOMAIN op.confirmed :
                  op.confirmed[j].at < k => op.confirmed[j].answer = "y"

\* The batch delete was confirmed and done, the zone delete then declined
ZoneDeleteDeclinedAfterBatch ==
    /\ op.name = "delete_zone" /\ op.note = "declined"
    /\ Len(op.confirmed) = 2
    /\ op.confirmed[2] = Confirm(2, "n")
    /\ Len(calls) = 2

(***************************************************************************)
(* Properties of the dispatcher                                            *)
(***************************************************************************)
\* C17: after an invalid choice at the dispatcher menu the user is prompted
\* again: the run has not ended and no manager is entered.
InvalidChoiceReprompts ==
    op.name = "dispatch" /\ op.note = "invalid" => pc = "dispatcher"

\* C18: the create-instance subcommand with an instance type and an AMI family
\* results in one create_instances call with that type and AMI family.
SubcommandCreatesInstance ==
    op.name = "create-instance" /\ pc = "ended" =>
        /\ Len(calls) = 1
        /\ calls[1].api = "create_instances"
        /\ calls[1].arg = <<typed[3], typed[2]>>

(***************************************************************************)
(* Properties of target resolution in the Instance Manager                 *)
(***************************************************************************)
\* C19: a start call is issued only on an instance observed 'stopped' and a stop
\* call only on one observed 'running'; a target in any other state is reported
\* and no action call is issued; for start, the running-cap pre-check comes
\* after the state check (it is not evaluated for a target in the wrong state)
\* and before the start call (a start call implies the pre-check passed).
ActionMatchesObservedState ==
    /\ \A k \in 1..Len(calls) :
         /\ (calls[k].api = "start" =>
               /\ calls[k].arg = "stopped"
               /\ op.resolved.state = "stopped"
               /\ calls[k].target = op.resolved.instance
               /\ op.precheck = "pass")
         /\ (calls[k].api = "stop" =>
               /\ calls[k].arg = "running"
               /\ op.resolved.state = "running"
               /\ calls[k].target = op.resolved.instance)
    /\ (op.name \in {"start", "stop"} /\ op.resolved.instance # 0
          /\ op.resolved.state # ValidState(op.name)
        => /\ op.note = "wrong_state"
           /\ calls = <<>>
           /\ op.precheck = "none")

\* A start aimed by id at a running instance while two are running: the state
\* check reports it and the cap pre-check is never reached
StartOfRunningReportedBeforeCap ==
    /\ op.name = "start" /\ op.note = "wrong_state"
    /\ op.resolved.state = "running"
    /\ op.observed = 0 /\ op.precheck = "none"
    /\ Cardinality(Running) >= 2
    /\ calls = <<>>

\* C20: with several candidates for the entered name, start, stop and terminate
\* act only on the candidate whose id was entered; an id that is not among the
\* candidates cancels the operation with no call; a single candidate is the
\* target.
ActsOnPickedCandidate ==
    LET r == op.resolved
        acting == {k \in 1..Len(calls) : calls[k].api \in {"start", "stop", "terminate"}}
    IN  /\ \A k \in acting :
              /\ calls[k].target \in r.candidates
              /\ (Cardinality(r.candidates) > 1 => calls[k].target = r.pick)
        /\ (Cardinality(r.candidates) > 1 /\ r.pick \notin r.candidates
            => op.note = "cancelled" /\ acting = {})
        /\ (Cardinality(r.candidates) > 1 /\ r.pick \in r.candidates
            => r.instance = r.pick)
        /\ (Cardinality(r.candidates) = 1 => r.instance \in r.candidates)

\* Two candidates share the name, and the one acted on is not the first listed
SecondCandidateActedOn ==
    /\ Cardinality(op.resolved.candidates) = 2
    /\ \E i \in op.resolved.candidates : i < op.resolved.pick
    /\ Len(calls) = 1
    /\ calls[1].api \in {"stop", "terminate"}
    /\ calls[1].target = op.resolved.pick

(***************************************************************************)
(* Properties of the Storage Manager's create operation                    *)
(***************************************************************************)
\* The existence probes of the running operation
Probes == {k \in 1..Len(calls) : calls[k].api = "head_bucket"}

\* C21: create_bucket is called only with a name that passes
\* is_valid_bucket_name and that the last existence probe of the same operation
\* answered 404 for; an invalid name, a name the probe found, and a name whose
\* probe failed otherwise never reach create_bucket, and 'q' cancels with no
\* create call.
CreateOnlyAfterProbe404 ==
    /\ \A k \in 1..Len(calls) :
         calls[k].api = "create_bucket" =>
           /\ IsValidBucketName(calls[k].target)
           /\ k > 1
           /\ calls[k - 1].api = "head_bucket"
           /\ calls[k - 1].target = calls[k].target
           /\ calls[k - 1].arg.code = "404"
           /\ \A j \in Probes : j < k
    /\ \A k \in Probes :
         /\ IsValidBucketName(calls[k].target)
         /\ (calls[k].arg.code # "404" /\ k < Len(calls)
               => calls[k + 1].api = "head_bucket")
    /\ (op.name = "create_bucket" /\ op.note \in {"cancelled", "crashed", "invalid",
                                                   "taken", "unavailable"}
          => \A k \in 1..Len(calls) : calls[k].api = "head_bucket")

\* A name is refused by the probe (another account's bucket), the next name is
\* free and is created
CreatedAfterRefusedProbe ==
    /\ op.name = "create_bucket" /\ op.note = "done"
    /\ Len(calls) >= 3
    /\ calls[1].api = "head_bucket" /\ calls[1].arg.code = "403"
    /\ calls[2].api = "head_bucket" /\ calls[2].arg.code = "404"
    /\ calls[3].api = "create_bucket" /\ calls[3].target = calls[2].target
    /\ buckets[calls[3].target].exists

\* The provider calls of the running operation after the existence probes
StepCalls == SelectSeq(calls, LAMBDA c : c.api # "head_bucket")

\* C27: in the bucket create sequence a failing step ends the operation: the
\* calls are the steps in order, each at most once, none after a failed one, and
\* what the earlier steps did stays (a bucket whose tagging failed exists
\* untagged and is not tool-owned).
CreateAbortsAtFailedStep ==
    op.name = "create_bucket" /\ op.note \in {"done", "failed"} =>
      LET S == StepCalls
          steps == CreateSteps(S[1].arg.access)
          b == buckets[S[1].target]
          ok(k) == k <= Len(S) /\ S[k].arg.ok
      IN  /\ Len(S) >= 1 /\ Len(S) <= Len(steps)
          /\ \A k \in 1..Len(S) : S[k].api = steps[k] /\ S[k].target = S[1].target
          /\ \A k \in 1..(Len(S) - 1) : S[k].arg.ok
          /\ (op.note = "done" <=> Len(S) = Len(steps) /\ S[Len(S)].arg.ok)
          /\ (op.note = "failed" <=> ~S[Len(S)].arg.ok)
          /\ b.exists = ok(1)
          /\ (b.tag = "cli") = ok(2)
          /\ (ok(1) /\ ~ok(2) => b.tag = "untagged" /\ S[1].target \notin CliBuckets)
          /\ b.access = (IF ok(4) THEN "public" ELSE IF ok(3) THEN "unblocked" ELSE "private")

\* The tagging call failed: the bucket exists, untagged, and nothing came after
TaggingFailedLeavesBucket ==
    /\ op.name = "create_bucket" /\ op.note = "failed"
    /\ Len(StepCalls) = 2
    /\ StepCalls[1].arg.access = "public"
    /\ StepCalls[2].api = "put_bucket_tagging" /\ ~StepCalls[2].arg.ok
    /\ buckets[StepCalls[1].target].exists
    /\ buckets[StepCalls[1].target].tag = "untagged"
    /\ StepCalls[1].target \notin CliBuckets

(***************************************************************************)
(* Properties of the DNS Manager's batch and candidates                    *)
(***************************************************************************)
\* C22: in the zone delete batch the first failing record DELETE ends the
\* operation: it is the last call (no further DELETE, no delete_hosted_zone), no
\* zone confirmation is asked, the records deleted before it stay deleted and
\* the zone with its other records stays.
BatchStopsAtFirstFailure ==
    op.name = "delete_zone" =>
      /\ \A k \in 1..Len(calls) :
           calls[k].api = "DELETE" /\ ~calls[k].arg.ok =>
             /\ k = Len(calls)
             /\ op.note = "batch_failed"
             /\ Len(op.confirmed) = 1 /\ op.confirmed[1].at = 0
             /\ zones[calls[k].target].exists
             /\ calls[k].arg.rr \in zones[calls[k].target].records
             /\ \A j \in 1..(k - 1) :
                  /\ calls[j].api = "DELETE" /\ calls[j].arg.ok
                  /\ calls[j].arg.rr \notin zones[calls[k].target].records
      /\ (op.note = "batch_failed" => calls # <<>> /\ ~calls[Len(calls)].arg.ok)

\* The second DELETE of a batch fails: the first record is gone, the zone stays
SecondDeleteOfBatchFailed ==
    /\ op.name = "delete_zone" /\ op.note = "batch_failed"
    /\ Len(calls) = 2
    /\ calls[1].arg.ok /\ ~calls[2].arg.ok
    /\ zones[calls[2].target].exists
    /\ calls[1].arg.rr \notin zones[calls[2].target].records
    /\ calls[2].arg.rr \in zones[calls[2].target].records

\* C23: no record DELETE is issued for a record set of type NS or SOA, neither
\* by the record delete operation nor by the batch of the zone delete operation.
NeverDeletesNsOrSoa ==
    \A k \in 1..Len(calls) :
        calls[k].api = "DELETE" => calls[k].arg.rr.type \notin {"NS", "SOA"}

\* A record is deleted from a zone and only the NS and SOA record sets are left
OnlyNsAndSoaLeftAfterDelete ==
    /\ op.name = "delete_record" /\ op.note = "done"
    /\ Len(calls) = 1 /\ calls[1].api = "DELETE"
    /\ zones[calls[1].target].records = DefaultRecords(calls[1].target)

(***************************************************************************)
(* Properties of record update and record delete                           *)
(***************************************************************************)
\* The (name, type) keys of a zone's record sets
RecordKeys(rs) == {<<r.name, r.type>> : r \in rs}

DeleteCarriesCurrentRecordSet ==
    \A k \in 1..Len(calls) :
        op.name = "delete_record" /\ calls[k].api = "DELETE" =>
            /\ calls[k].arg.rr.name = calls[k].arg.selected.name
            /\ calls[k].arg.rr.type = calls[k].arg.selected.type
            /\ calls[k].arg.rr.ttl = calls[k].arg.selected.ttl
            /\ calls[k].arg.rr.values = calls[k].arg.selected.values

\* C28: a record update of a TXT record sends the new value in double quotes:
\* wrapped when it was typed without them, unchanged when typed with them.
UpdateSendsTxtQuoted ==
    \A k \in 1..Len(calls) :
        op.name = "update_record" /\ calls[k].api = "UPSERT"
          /\ calls[k].arg.rr.type = "TXT" =>
            calls[k].arg.rr.values[1] =
                RecordValue("TXT", IF Strip(calls[k].arg.asked.value) = <<>>
                                   THEN calls[k].arg.selected.values[1]
                                   ELSE Strip(calls[k].arg.asked.value))

(***************************************************************************)
(* Properties of zone create                                               *)
(***************************************************************************)
\* C26: create_hosted_zone is issued only when no existing hosted zone has the
\* domain of the assembled name; a collision issues no create call and asks
\* again; a successful create is followed by the tagging call for the new
\* zone's id.
ZoneCreatedOnlyWithoutCollision ==
    /\ \A k \in 1..Len(calls) :
         calls[k].api = "create_hosted_zone" =>
           /\ Fqdn(Lower(calls[k].target)) \notin calls[k].arg.listed
           /\ (calls[k].arg.ok =>
                 /\ k < Len(calls)
                 /\ calls[k + 1].api = "change_tags_for_resource"
                 /\ calls[k + 1].target = calls[k].arg.id)
    /\ (op.name = "create_zone" /\ op.note = "exists" => pc = "zone_name")

(***************************************************************************)
(* Properties of the record name                                           *)
(***************************************************************************)
\* C29: the record name record create sends is the name of the selected zone
\* or a name of the form <label(s)>.<zone name>; any other typed name is
\* refused at the prompt.
CreatedRecordNameInZone ==
    \A k \in 1..Len(calls) :
        op.name = "create_record" /\ calls[k].api = "UPSERT" =>
            InZone(calls[k].target, Fqdn(calls[k].arg.rr.name))

(***************************************************************************)
(* Properties of two interleaved runs                                      *)
(***************************************************************************)
\* C30: nothing is read again between the lookup or pre-check of a run and its
\* action call: a run that passed its checks issues its start, stop or create
\* call in its next step, on what it observed, whatever the other run and the
\* provider did in between; two runs that each counted one running instance
\* both pass the cap pre-check.
CallFollowsStaleObservation ==
    [][\A r \in Runs :
          pc[r] = "checked" /\ pc'[r] = "done" =>
              /\ Len(calls') = Len(calls) + 1
              /\ calls'[Len(calls')].arg = [run |-> r, observed |-> local[r]]
              /\ calls'[Len(calls')].target = local[r].instance]_vars

\* Both runs counted one running instance, both started an instance, and three
\* instances are running
BothRunsPassedCapAtOne ==
    /\ Len(calls) = 2
    /\ calls[1].api = "start" /\ calls[2].api = "start"
    /\ calls[1].arg.run # calls[2].arg.run
    /\ calls[1].arg.observed.running = 1
    /\ calls[2].arg.observed.running = 1
    /\ Cardinality(Running) = 3

====
